---- MODULE Spec2Model ----
(***************************************************************************)
(* Model of the two samplers of randgen.ipynb: rejection_sample (the      *)
(* definition of line 193) and metropolis_hastings (line 399), run        *)
(* against a uniform source whose output is a sequence of draws (tape).   *)
(*                                                                         *)
(* Reals are modelled exactly, as numerators over UDen: a draw u stands   *)
(* for u/UDen in [0,1), a sample or chain state v for v/UDen, a density   *)
(* value d for d/UDen.  Floating-point rounding and overflow are not      *)
(* modelled.                                                               *)
(***************************************************************************)
EXTENDS Integers, Sequences, FiniteSets, TLC

\* ---------------------------------------------------------------- bounds
UDen == 2          \* the uniform source yields 0/UDen .. (UDen-1)/UDen
MaxDraws == 7      \* draws one call may consume
MaxCount == 2      \* num_samples ranges over -1..MaxCount
MaxBurnIn == 2     \* burn_in ranges over 0..MaxBurnIn

Draws == 0..(UDen - 1)
Counts == (-1)..MaxCount
BurnIns == 0..MaxBurnIn
DomVals == {-1, 0, 1}
MaxVals == {-1, 0, 1, 2}
Densities == {"zero", "one", "ramp"}
Targets == {"flat", "ramp", "gap"}
Proposals == {"flat", "tilt", "up"}
Ariths == {"float", "ndarray"}
Bindings == {"def124", "def193"}

VARIABLES call, tape, run
vars == <<call, tape, run>>

\* ---------------------------------------------------- values of np arrays
\* samples[:] = np.nan (line 200): the placeholder of an unfilled entry.
NaN == [tag |-> "nan", v |-> 0]
\* np.empty(num_samples) (line 403): an entry nothing has written yet.
Uninit == [tag |-> "uninit", v |-> 0]
Val(v) == [tag |-> "val", v |-> v]
IsNaN(e) == e.tag = "nan"

\* ------------------------------------------------- caller-supplied inputs
\* f(x): the density handed to rejection_sample, as a numerator over UDen.
F(name, x) ==
    CASE name = "zero" -> 0
      [] name = "one"  -> UDen
      [] name = "ramp" -> x

\* pi(x): the target handed to metropolis_hastings ("gap" is 0 at x = 0).
Pi(name, x) ==
    CASE name = "flat" -> UDen
      [] name = "ramp" -> x + 1
      [] name = "gap"  -> IF x = 0 THEN 0 ELSE UDen

\* Q(x)(y): the proposal density of y given x ("up" never proposes below x).
Q(name, x, y) ==
    CASE name = "flat" -> UDen
      [] name = "tilt" -> y + 1
      [] name = "up"   -> IF y >= x THEN UDen ELSE 0

\* ------------------------------------------------------------- the calls
\* rejection_sample(f, max_val, domain=(lo, hi), num_samples=count), line 193.
RSCalls ==
    [kind : {"rs"}, f : Densities, max_val : MaxVals,
     lo : DomVals, hi : DomVals, count : Counts]

\* metropolis_hastings(pi, Q, num_samples=count, burn_in), line 399.
\* arith: pi and Q return Python floats or numpy values (decides what a
\* division by zero does); bind: the definition the name rejection_sample
\* is bound to when the call of line 410 runs.  The notebook defines the
\* name three times (lines 124, 156, 193); read top to bottom the last
\* definition (line 193) is in force, while the recorded prompt numbers
\* (lines 142, 174, 213, 427) show the cell of line 124 executed last
\* before metropolis_hastings was defined.
MHCalls ==
    [kind : {"mh"}, pi : Targets, q : Proposals, count : Counts,
     burn_in : BurnIns, arith : Ariths, bind : Bindings]

\* The state of one call.  pc: where the call is; i: the index of the sample
\* being produced (from 1); j: chain steps done for it; samples: the array;
\* pos: draws consumed; x, y: the chain state and the proposed state.
\* History kept for the properties: evals (evaluations of f, pi, Q and the
\* densities Q returns), trials (passes of the while loop of line 203),
\* steps (chain steps completed), inits (initial states drawn), chain (the
\* chain states, from the initial one), err (the exception raised).
Fresh ==
    [pc |-> "start", i |-> 0, j |-> 0, samples |-> <<>>, pos |-> 0,
     x |-> 0, y |-> 0, evals |-> 0, trials |-> 0, steps |-> 0,
     inits |-> 0, chain |-> <<>>, err |-> "none"]

Ended(s) == s.pc \in {"returned", "raised"}

\* Both functions are plain synchronous calls: a second call of the session
\* starts after the first has returned or raised.
Turn(r) == \A q \in DOMAIN run : q < r => Ended(run[q])

\* ------------------------------------------------------ uniform source
\* np.random.random(): the run at position pos reads the next draws of the
\* tape; a draw nobody has read yet is any value of Draws.
Reads(s, us) ==
    /\ s.pos + Len(us) <= MaxDraws
    /\ \A k \in 1..Len(us) :
          s.pos + k <= Len(tape) => tape[s.pos + k] = us[k]

TapeAfter(s, us) ==
    IF s.pos + Len(us) > Len(tape) THEN SubSeq(tape, 1, s.pos) \o us ELSE tape

\* ---------------------------------------------------- rejection_sample
NoSamplesRequested_Strict(n) == n < 0

\* line 194: if num_samples <= 0
NoSamplesRequested(n) == n <= 0

\* line 196: elif domain[1] < domain[0]
InvalidDomain(lo, hi) == hi < lo

Candidate_NoOffset(lo, hi, u) == lo * UDen + u * hi

\* line 204: candidate = domain[0] + random() * (domain[1] - domain[0])
Candidate(lo, hi, u) == lo * UDen + u * (hi - lo)

Accepts_Reversed(u, max_val, fx) == u * max_val > fx

Accepts_NonStrict(u, max_val, fx) == u * max_val <= fx

\* line 205: random() * max_val < f(candidate)
Accepts(u, max_val, fx) == u * max_val < fx

RSNext_Early(c, s) == IF s.i >= c.count THEN [s EXCEPT !.pc = "returned"] ELSE s

\* lines 202, 208: for i in range(num_samples) ... return samples
RSNext(c, s) == IF s.i > c.count THEN [s EXCEPT !.pc = "returned"] ELSE s

\* lines 194-202: the checks, the NaN-filled array, the first loop test
RSEntered(c, s) ==
    IF NoSamplesRequested(c.count)
    THEN [s EXCEPT !.pc = "returned", !.samples = <<>>]
    ELSE IF InvalidDomain(c.lo, c.hi)
    THEN [s EXCEPT !.pc = "raised", !.err = "ValueError"]
    ELSE RSNext(c, [s EXCEPT !.pc = "rs_loop", !.i = 1,
                              !.samples = [k \in 1..c.count |-> NaN]])

\* lines 203-206: one pass of the while loop, then its test again
RSTried(c, s, u1, u2) ==
    LET cand == Candidate(c.lo, c.hi, u1)
        e    == IF Accepts(u2, c.max_val, F(c.f, cand))
                THEN Val(cand) ELSE s.samples[s.i]
        s1   == [s EXCEPT !.samples[s.i] = e, !.pos = @ + 2,
                          !.evals = @ + 1, !.trials = @ + 1]
    IN  IF IsNaN(e) THEN s1 ELSE RSNext(c, [s1 EXCEPT !.i = @ + 1])

\* lines 193-202
RSEnter(r) ==
    /\ call.kind = "rs"
    /\ Turn(r)
    /\ run[r].pc = "start"
    /\ run' = [run EXCEPT ![r] = RSEntered(call, @)]
    /\ UNCHANGED <<call, tape>>

\* lines 203-206
RSTrial(r) ==
    /\ call.kind = "rs"
    /\ Turn(r)
    /\ run[r].pc = "rs_loop"
    /\ \E u1 \in Draws, u2 \in Draws :
          /\ Reads(run[r], <<u1, u2>>)
          /\ tape' = TapeAfter(run[r], <<u1, u2>>)
          /\ run' = [run EXCEPT ![r] = RSTried(call, @, u1, u2)]
    /\ UNCHANGED call

\* The history of a call whose draws are not recorded: its counters are
\* kept modulo MaxDraws + 1 (the loop of line 203 itself counts nothing and
\* has no cap).
Wrapped(s) ==
    [s EXCEPT !.pos = @ % (MaxDraws + 1), !.evals = @ % (MaxDraws + 1),
              !.trials = @ % (MaxDraws + 1)]

\* lines 203-206 with the two draws u1, u2, the tape left unrecorded
RSTrialDraw(r, u1, u2) ==
    /\ call.kind = "rs"
    /\ Turn(r)
    /\ run[r].pc = "rs_loop"
    /\ run' = [run EXCEPT ![r] = Wrapped(RSTried(call, @, u1, u2))]
    /\ UNCHANGED <<call, tape>>

\* lines 203-206, any two draws
RSTrialUnbounded(r) == \E u1 \in Draws, u2 \in Draws : RSTrialDraw(r, u1, u2)

\* ------------------------------------------------- metropolis_hastings
\* line 410 calls rejection_sample with one positional argument; the
\* definition of line 124 requires one (f), those of lines 156 and 193 two
\* (f, max_val).
RequiredArgs(bind) == IF bind = "def124" THEN 1 ELSE 2

SuppliedArgs == 1

\* lines 406, 420, 422: for i in range(num_samples) ... return samples
MHNext(c, s) == IF s.i > c.count THEN [s EXCEPT !.pc = "returned"] ELSE s

\* lines 400-406: the check, the unfilled array, the initial state
MHEntered(c, s, u) ==
    IF NoSamplesRequested(c.count)
    THEN [s EXCEPT !.pc = "returned", !.samples = <<>>]
    ELSE MHNext(c, [s EXCEPT !.pc = "mh_loop", !.i = 1, !.j = 0, !.x = u,
                              !.samples = [k \in 1..c.count |-> Uninit],
                              !.pos = @ + 1, !.inits = @ + 1,
                              !.chain = <<u>>])

BurnInLeft_Inclusive(c, s) == s.j <= c.burn_in

\* line 408: for _ in range(burn_in)
BurnInLeft(c, s) == s.j < c.burn_in

\* lines 409-410: proposal_dist = Q(x), then the call of rejection_sample,
\* a TypeError when the bound definition requires max_val as well
MHBegun(c, s) ==
    IF SuppliedArgs < RequiredArgs(c.bind)
    THEN [s EXCEPT !.pc = "raised", !.err = "TypeError", !.evals = @ + 1]
    ELSE [s EXCEPT !.pc = "mh_propose", !.evals = @ + 1]

\* line 134 (definition of line 124, f = Q(x)): random() < f(candidate)
ProposalAccepts(u, qxy) == u < qxy

\* lines 131-135: one pass of the while loop of the definition of line 124,
\* candidate = random() (line 133); an accepted candidate is x_proposed
MHProposed(c, s, u1, u2) ==
    LET s1 == [s EXCEPT !.pos = @ + 2, !.evals = @ + 1]
    IN  IF ProposalAccepts(u2, Q(c.q, s.x, u1))
        THEN [s1 EXCEPT !.y = u1, !.pc = "mh_decide"]
        ELSE s1

\* lines 412-413: the two products of the acceptance ratio
RatioNum(c, x, y) == Pi(c.pi, y) * Q(c.q, y, x)
RatioDen(c, x, y) == Pi(c.pi, x) * Q(c.q, x, y)

\* lines 412-413: p_accept = min(1, num / den) as <<numerator, denominator>>.
\* With den = 0 and numpy values num / den is inf or nan: min(1, inf) is 1,
\* and min(1, nan) is 1 as well, since nan < 1 is false.
PAccept(num, den) ==
    IF den = 0 THEN <<1, 1>>
    ELSE IF num < den THEN <<num, den>> ELSE <<1, 1>>

ChainAccepts_NonStrict(u, p) == u * p[2] <= p[1] * UDen

\* line 415: random() < p_accept
ChainAccepts(u, p) == u * p[2] < p[1] * UDen

\* lines 411-417: the reverse proposal, the ratio, the acceptance test; with
\* Python floats a zero denominator raises ZeroDivisionError at line 412
MHDecided(c, s, u) ==
    LET num == RatioNum(c, s.x, s.y)
        den == RatioDen(c, s.x, s.y)
    IN  IF den = 0 /\ c.arith = "float"
        THEN [s EXCEPT !.pc = "raised", !.err = "ZeroDivisionError",
                       !.evals = @ + 5]
        ELSE LET x2 == IF ChainAccepts(u, PAccept(num, den))
                       THEN s.y ELSE s.x
             IN  [s EXCEPT !.pc = "mh_loop", !.j = @ + 1, !.steps = @ + 1,
                           !.pos = @ + 1, !.evals = @ + 5, !.x = x2,
                           !.chain = Append(@, x2)]

\* line 420: samples[i] = x, then the next i or the return of line 422
MHEmitted(c, s) ==
    MHNext(c, [s EXCEPT !.samples[s.i] = Val(s.x), !.i = @ + 1, !.j = 0])

\* the initial state taken from a source other than the sequence of draws
MHEnter_Unseeded(r) ==
    /\ call.kind = "mh"
    /\ Turn(r)
    /\ run[r].pc = "start"
    /\ \E u \in Draws, v \in Draws :
          /\ Reads(run[r], <<v>>)
          /\ tape' = TapeAfter(run[r], <<v>>)
          /\ run' = [run EXCEPT ![r] = MHEntered(call, @, u)]
    /\ UNCHANGED call

\* lines 399-406
MHEnter(r) ==
    /\ call.kind = "mh"
    /\ Turn(r)
    /\ run[r].pc = "start"
    /\ IF NoSamplesRequested(call.count)
       THEN /\ run' = [run EXCEPT ![r] = MHEntered(call, @, 0)]
            /\ UNCHANGED tape
       ELSE \E u \in Draws :
              /\ Reads(run[r], <<u>>)
              /\ tape' = TapeAfter(run[r], <<u>>)
              /\ run' = [run EXCEPT ![r] = MHEntered(call, @, u)]
    /\ UNCHANGED call

\* lines 408-410
MHStepBegin(r) ==
    /\ call.kind = "mh"
    /\ Turn(r)
    /\ run[r].pc = "mh_loop"
    /\ BurnInLeft(call, run[r])
    /\ run' = [run EXCEPT ![r] = MHBegun(call, @)]
    /\ UNCHANGED <<call, tape>>

\* line 410 into lines 131-135
MHProposeTrial(r) ==
    /\ call.kind = "mh"
    /\ Turn(r)
    /\ run[r].pc = "mh_propose"
    /\ \E u1 \in Draws, u2 \in Draws :
          /\ Reads(run[r], <<u1, u2>>)
          /\ tape' = TapeAfter(run[r], <<u1, u2>>)
          /\ run' = [run EXCEPT ![r] = MHProposed(call, @, u1, u2)]
    /\ UNCHANGED call

\* lines 411-417
MHDecide(r) ==
    /\ call.kind = "mh"
    /\ Turn(r)
    /\ run[r].pc = "mh_decide"
    /\ IF RatioDen(call, run[r].x, run[r].y) = 0 /\ call.arith = "float"
       THEN /\ run' = [run EXCEPT ![r] = MHDecided(call, @, 0)]
            /\ UNCHANGED tape
       ELSE \E u \in Draws :
              /\ Reads(run[r], <<u>>)
              /\ tape' = TapeAfter(run[r], <<u>>)
              /\ run' = [run EXCEPT ![r] = MHDecided(call, @, u)]
    /\ UNCHANGED call

\* the chain started afresh after every retained sample
MHEmit_Restart(r) ==
    /\ call.kind = "mh"
    /\ Turn(r)
    /\ run[r].pc = "mh_loop"
    /\ ~BurnInLeft(call, run[r])
    /\ \E u \in Draws :
          /\ Reads(run[r], <<u>>)
          /\ tape' = TapeAfter(run[r], <<u>>)
          /\ run' = [run EXCEPT ![r] =
                       [MHEmitted(call, @) EXCEPT !.x = u, !.pos = @ + 1,
                                                  !.inits = @ + 1]]
    /\ UNCHANGED call

\* lines 408, 419-422
MHEmit(r) ==
    /\ call.kind = "mh"
    /\ Turn(r)
    /\ run[r].pc = "mh_loop"
    /\ ~BurnInLeft(call, run[r])
    /\ run' = [run EXCEPT ![r] = MHEmitted(call, @)]
    /\ UNCHANGED <<call, tape>>

\* ------------------------------------------------------- specifications
Calls == RSCalls \cup MHCalls

\* one call
Init ==
    /\ call \in Calls
    /\ tape = <<>>
    /\ run = [r \in {1} |-> Fresh]

\* the same call made twice against the same sequence of draws
InitPair ==
    /\ call \in Calls
    /\ tape = <<>>
    /\ run = [r \in {1, 2} |-> Fresh]

Next ==
    \/ \E r \in DOMAIN run : RSEnter(r)
    \/ \E r \in DOMAIN run : RSTrial(r)
    \/ \E r \in DOMAIN run : MHEnter(r)
    \/ \E r \in DOMAIN run : MHStepBegin(r)
    \/ \E r \in DOMAIN run : MHProposeTrial(r)
    \/ \E r \in DOMAIN run : MHDecide(r)
    \/ \E r \in DOMAIN run : MHEmit(r)

Spec == Init /\ [][Next]_vars

SpecPair == InitPair /\ [][Next]_vars

\* one call of rejection_sample with no bound on the number of its trials
InitLive ==
    /\ call \in RSCalls
    /\ tape = <<>>
    /\ run = [r \in {1} |-> Fresh]

NextLive ==
    \/ \E r \in DOMAIN run : RSEnter(r)
    \/ \E r \in DOMAIN run : RSTrialUnbounded(r)

\* a fair uniform source: every pair of draw values keeps coming
FairSource ==
    \A u1 \in Draws : \A u2 \in Draws : WF_vars(RSTrialDraw(1, u1, u2))

\* the call runs (sequential code makes its next step) against a fair source
SpecLive ==
    /\ InitLive
    /\ [][NextLive]_vars
    /\ WF_vars(RSEnter(1))
    /\ FairSource

\* -------------------------------------------------------------- claims
Runs == DOMAIN run

IsRS == call.kind = "rs"
IsMH == call.kind = "mh"

Filled(s) == \A k \in 1..Len(s.samples) : s.samples[k].tag = "val"

\* C1 as stated: rejection_sample with hi < lo raises the invalid-domain
\* error for every f, max_val and count, count <= 0 included, and returns
\* no samples.
C1_RaisesForEveryCount ==
    \A r \in Runs :
        (IsRS /\ call.hi < call.lo /\ run[r].pc # "start")
            => /\ run[r].pc = "raised"
               /\ run[r].err = "ValueError"
               /\ run[r].samples = <<>>

\* What the code does with hi < lo (lines 194-197): for count >= 1 it raises
\* the invalid-domain error before any draw or evaluation of f; for
\* count <= 0 the count check comes first and it returns the empty sequence.
DomainCheckedAfterCount ==
    \A r \in Runs :
        (IsRS /\ call.hi < call.lo /\ run[r].pc # "start")
            => /\ run[r].samples = <<>>
               /\ run[r].pos = 0
               /\ run[r].evals = 0
               /\ IF call.count >= 1
                  THEN run[r].pc = "raised" /\ run[r].err = "ValueError"
                  ELSE run[r].pc = "returned" /\ run[r].err = "none"

\* C2: for count <= 0 rejection_sample (with a valid domain) and
\* metropolis_hastings return the empty sequence without raising, without
\* consuming a draw and without evaluating f, pi or Q.
C2_EmptyForNoSamples ==
    \A r \in Runs :
        (/\ call.count <= 0
         /\ IsRS => call.lo <= call.hi
         /\ run[r].pc # "start")
            => /\ run[r].pc = "returned"
               /\ run[r].err = "none"
               /\ run[r].samples = <<>>
               /\ run[r].pos = 0
               /\ run[r].evals = 0
               /\ tape = <<>>

C2_Witness ==
    /\ IsMH /\ call.count = 0
    /\ run[1].pc = "returned"

PositiveTarget(name) == \A x \in Draws : Pi(name, x) > 0
PositiveProposal(name) == \A x \in Draws : \A y \in Draws : Q(name, x, y) > 0

\* C3 as stated: with count >= 1, burn_in >= 1 and strictly positive pi and
\* Q, metropolis_hastings raises no error, and a call that returns has
\* performed count * burn_in chain steps, each with a proposed state drawn
\* through the proposal-sampling call, and returns count samples.
C3_NoErrorAndAllSteps ==
    \A r \in Runs :
        (/\ IsMH /\ call.count >= 1 /\ call.burn_in >= 1
         /\ PositiveTarget(call.pi) /\ PositiveProposal(call.q))
            => /\ run[r].pc # "raised"
               /\ run[r].pc = "returned"
                    => /\ run[r].steps = call.count * call.burn_in
                       /\ Len(run[r].samples) = call.count

\* C4: every value rejection_sample holds in its array, with lo <= hi, lies
\* within [lo, hi], whatever the draws; with lo = hi it equals lo.
C4_SamplesInDomain ==
    \A r \in Runs :
        (IsRS /\ call.lo <= call.hi)
            => \A k \in 1..Len(run[r].samples) :
                  LET e == run[r].samples[k]
                  IN  ~IsNaN(e)
                        => /\ call.lo * UDen <= e.v
                           /\ e.v <= call.hi * UDen
                           /\ call.lo = call.hi => e.v = call.lo * UDen

C4_Witness ==
    /\ IsRS /\ call.lo < call.hi /\ call.count >= 2
    /\ run[1].pc = "returned"
    /\ run[1].samples[1].v > call.lo * UDen
    /\ run[1].samples[2].v = call.lo * UDen

\* a value the rejection sampler can accept: a candidate of the domain that
\* passes the acceptance test for some threshold draw
Acceptable(c, v) ==
    \E u1 \in Draws : \E u2 \in Draws :
        /\ v = c.lo * UDen + u1 * (c.hi - c.lo)
        /\ u2 * c.max_val < F(c.f, v)

\* C5: a call with count >= 1 that has ended has either raised or returned
\* exactly count entries, none of them an unfilled placeholder: each is a
\* value the rejection sampler accepted, or a state the chain was in.
C5_NoPartialResults ==
    \A r \in Runs :
        (call.count >= 1 /\ Ended(run[r]))
            => \/ run[r].pc = "raised" /\ run[r].err # "none"
               \/ /\ run[r].pc = "returned"
                  /\ run[r].err = "none"
                  /\ Len(run[r].samples) = call.count
                  /\ \A k \in 1..call.count :
                        LET e == run[r].samples[k]
                        IN  /\ e.tag = "val"
                            /\ IsRS => Acceptable(call, e.v)
                            /\ IsMH => \E n \in 1..Len(run[r].chain) :
                                          run[r].chain[n] = e.v

C5_Witness ==
    /\ IsRS /\ call.count >= 2
    /\ run[1].pc = "returned"
    /\ run[1].trials > call.count

\* C6: metropolis_hastings with burn_in = 0 and count >= 1 makes no chain
\* step: it consumes exactly one draw x0, never evaluates pi or Q, never
\* raises, and every sample it writes or returns equals x0.
C6_ZeroBurnIn ==
    \A r \in Runs :
        (IsMH /\ call.burn_in = 0 /\ call.count >= 1 /\ run[r].pc # "start")
            => /\ run[r].pos = 1
               /\ run[r].inits = 1
               /\ run[r].evals = 0
               /\ run[r].steps = 0
               /\ run[r].pc # "raised"
               /\ \A k \in 1..Len(run[r].samples) :
                     run[r].samples[k] \in {Uninit, Val(tape[1])}
               /\ run[r].pc = "returned"
                    => /\ Len(run[r].samples) = call.count
                       /\ Filled(run[r])

C6_Witness ==
    /\ IsMH /\ call.burn_in = 0 /\ call.count >= 2
    /\ run[1].pc = "returned"
    /\ run[1].samples[2] = Val(tape[1])
    /\ tape[1] > 0

\* C7: two calls of the same sampler with the same arguments against the
\* same sequence of draws end the same way (both return or both raise the
\* same error), with identical output sequences, none of whose entries is
\* unwritten memory, and after the same number of draws.
C7_Deterministic ==
    (Runs = {1, 2} /\ Ended(run[1]) /\ Ended(run[2]))
        => /\ run[1].pc = run[2].pc
           /\ run[1].err = run[2].err
           /\ run[1].pos = run[2].pos
           /\ run[1].pc = "returned"
                => /\ run[1].samples = run[2].samples
                   /\ \A k \in 1..Len(run[2].samples) :
                         run[2].samples[k] # Uninit

C7_Witness ==
    /\ Runs = {1, 2}
    /\ IsMH /\ call.count >= 1 /\ call.burn_in >= 1
    /\ run[1].pc = "returned" /\ run[2].pc = "returned"
    /\ run[2].pos >= 4

\* C8: a trial of rejection_sample consumes two draws in order, U1 for the
\* candidate x = lo + U1 * (hi - lo), then U2, and x becomes sample i iff
\* U2 * max_val < f(x); a rejection leaves the index and the samples as
\* they were and the loop running.  After T trials 2 * T draws are consumed.
C8_Trial ==
    [][\A r \in Runs :
          (IsRS /\ run[r].pc = "rs_loop" /\ run'[r] # run[r])
              => LET s   == run[r]
                     s2  == run'[r]
                     u1  == tape'[s.pos + 1]
                     u2  == tape'[s.pos + 2]
                     x   == call.lo * UDen + u1 * (call.hi - call.lo)
                     acc == u2 * call.max_val < F(call.f, x)
                 IN  /\ s2.pos = s.pos + 2
                     /\ s2.trials = s.trials + 1
                     /\ s2.pos = 2 * s2.trials
                     /\ \A k \in 1..(s.i - 1) : s2.samples[k] = s.samples[k]
                     /\ acc => /\ s2.samples = [s.samples EXCEPT ![s.i] = Val(x)]
                               /\ s2.i = s.i + 1
                     /\ ~acc => /\ s2.samples = s.samples
                                /\ s2.i = s.i
                                /\ s2.pc = "rs_loop"]_vars

C8_Witness ==
    /\ IsRS /\ call.count >= 2
    /\ run[1].pc = "rs_loop"
    /\ run[1].i = 2
    /\ run[1].trials = 3
    /\ run[1].pos = 6

\* C9 as stated: every chain step with state x and proposed state y draws
\* one U and moves to y iff U < min(1, pi(y) Q(x|y) / (pi(x) Q(y|x))), else
\* stays at x: a ratio >= 1 is always accepted, and a proposal with
\* pi(y) = 0 or Q(x|y) = 0 never is.
C9_EveryStep ==
    [][\A r \in Runs :
          (IsMH /\ run[r].pc = "mh_decide" /\ run'[r] # run[r])
              => LET s   == run[r]
                     s2  == run'[r]
                     num == Pi(call.pi, s.y) * Q(call.q, s.y, s.x)
                     den == Pi(call.pi, s.x) * Q(call.q, s.x, s.y)
                 IN  /\ s2.pc = "mh_loop"
                     /\ s2.pos = s.pos + 1
                     /\ s2.x \in {s.x, s.y}
                     /\ num >= den => s2.x = s.y
                     /\ num = 0 => s2.x = s.x
                     /\ (0 < num /\ num < den)
                          => (s2.x = s.y <=> tape'[s.pos + 1] * den < num * UDen)]_vars

\* C9 amended: the same, for every chain step whose denominator
\* pi(x) Q(y|x) is strictly positive.
C9_StepWithPositiveDenominator ==
    [][\A r \in Runs :
          (IsMH /\ run[r].pc = "mh_decide" /\ run'[r] # run[r])
              => LET s   == run[r]
                     s2  == run'[r]
                     num == Pi(call.pi, s.y) * Q(call.q, s.y, s.x)
                     den == Pi(call.pi, s.x) * Q(call.q, s.x, s.y)
                 IN  den > 0
                       => LET u   == tape'[s.pos + 1]
                              acc == IF num >= den THEN u < UDen
                                     ELSE u * den < num * UDen
                          IN  /\ s2.pc = "mh_loop"
                              /\ s2.pos = s.pos + 1
                              /\ s2.steps = s.steps + 1
                              /\ s2.x = IF acc THEN s.y ELSE s.x
                              /\ num >= den => s2.x = s.y
                              /\ num = 0 => s2.x = s.x]_vars

\* a step that rejected a proposal of positive ratio
C9_Witness ==
    /\ IsMH /\ call.pi = "ramp" /\ call.q = "flat"
    /\ run[1].pc = "mh_loop"
    /\ run[1].steps = 1
    /\ run[1].x # run[1].y

\* C10: within one metropolis_hastings call the initial state is drawn
\* once, before the first sample, and the chain is never reset: sample k
\* (from 1) is the state of the one chain after k * burn_in steps, and the
\* burn-in of the next sample starts from it.
C10_SingleChain ==
    \A r \in Runs :
        (IsMH /\ call.count >= 1 /\ run[r].pc # "start")
            => LET s == run[r]
               IN  /\ s.inits = 1
                   /\ s.chain[1] = tape[1]
                   /\ Len(s.chain) = s.steps + 1
                   /\ \A k \in 1..Len(s.samples) :
                         s.samples[k].tag = "val"
                           => s.samples[k].v = s.chain[k * call.burn_in + 1]
                   /\ (s.pc = "mh_loop" /\ s.j = 0 /\ s.i > 1)
                        => /\ s.x = s.samples[s.i - 1].v
                           /\ s.steps = (s.i - 1) * call.burn_in

C10_Witness ==
    /\ IsMH /\ call.count >= 2 /\ call.burn_in >= 1
    /\ run[1].pc = "returned"
    /\ run[1].samples[1] # run[1].samples[2]

\* max_val >= f(x) for every x of the domain [lo, hi]
BoundsDensity(c) ==
    \A v \in (c.lo * UDen)..(c.hi * UDen) : F(c.f, v) <= c.max_val * UDen

\* f is positive at some candidate the draws can produce
PositiveSomewhere(c) ==
    \E u1 \in Draws : F(c.f, c.lo * UDen + u1 * (c.hi - c.lo)) > 0

\* no pair of draws passes the acceptance test
NeverAccepting(c) ==
    \A u1 \in Draws : \A u2 \in Draws :
        ~(u2 * c.max_val < F(c.f, c.lo * UDen + u1 * (c.hi - c.lo)))

\* C11: against a fair uniform source, rejection_sample with count >= 1,
\* lo <= hi, max_val >= sup f (however loose) and f positive at some
\* reachable candidate eventually returns; the retry loop has no cap, so a
\* call none of whose candidates can pass U2 * max_val < f(x) stays in the
\* loop, always able to try again, and never returns nor raises.
C11_ReturnsOrRetriesForever ==
    /\ (IsRS /\ call.count >= 1 /\ call.lo <= call.hi
          /\ BoundsDensity(call) /\ PositiveSomewhere(call))
         => <>(run[1].pc = "returned" /\ Len(run[1].samples) = call.count
                 /\ Filled(run[1]))
    /\ [](IsRS /\ call.count >= 1 /\ call.lo <= call.hi /\ NeverAccepting(call)
            => /\ run[1].pc \in {"start", "rs_loop"}
               /\ run[1].pc = "rs_loop"
                    => /\ run[1].i = 1
                       /\ ENABLED RSTrialUnbounded(1))

\* a loose bound: max_val = 2 over f = 1, returned after rejections
C11_Witness ==
    /\ IsRS /\ call.f = "one" /\ call.max_val = 2 /\ call.count >= 2
    /\ run[1].pc = "returned"
    /\ run[1].trials > call.count
    /\ run[1].pos = 2 * run[1].trials

\* C12: with max_val >= 0 every value rejection_sample holds in its array
\* or returns has f(x) > 0, whatever the draws, also when max_val is below
\* the maximum of f: a point of zero or negative density is never emitted.
C12_PositiveDensityOnly ==
    \A r \in Runs :
        (IsRS /\ call.max_val >= 0)
            => \A k \in 1..Len(run[r].samples) :
                  LET e == run[r].samples[k]
                  IN  ~IsNaN(e) => F(call.f, e.v) > 0

\* max_val = 0, below the maximum of f(x) = x on [0, 1]: returned after a
\* candidate of density 0 was turned down
C12_Witness ==
    /\ IsRS /\ call.f = "ramp" /\ call.max_val = 0
    /\ call.lo = 0 /\ call.hi = 1 /\ call.count >= 1
    /\ run[1].pc = "returned"
    /\ run[1].trials > call.count
    /\ \A k \in 1..call.count : F(call.f, run[1].samples[k].v) > 0

====
